---- MODULE Spec2Model ----
(***************************************************************************)
(* A model of ls.c: option parsing, classification of the command-line     *)
(* targets, the sorter, the dotfile filter, the report line (type, size    *)
(* field, display name) and the directory traversal with its               *)
(* working-directory save/restore.                                         *)
(*                                                                         *)
(* Strings are sequences of byte values (ASCII codes), so that strcasecmp, *)
(* the "%7ld" / "%6.1f" conversions and the " -> " concatenation are       *)
(* computed byte by byte as in the C code.  The permission bits, owner,    *)
(* group and time columns of a report line are not modelled.               *)
(***************************************************************************)
EXTENDS Integers, Sequences, FiniteSets, TLC

VARIABLES argv,        \* the command line: requested flags and FILE operands
          g_args,      \* struct arg_t g_args
          pc,          \* position in main / do_files / do_dirs
          files,       \* main: files[0..fc-1], the plain targets
          dirs,        \* main: dirs[0..dc-1], the directory targets
          i,           \* do_dirs: loop index (1-based)
          j,           \* do_files: loop index (1-based)
          cur,         \* do_files: the array being reported
          ctx,         \* 0 while reporting the plain targets, else the index i of the directory
          wd,          \* the process's current working directory (a node of FS)
          cwd,         \* do_dirs: the saved working directory buffer
          entered,     \* indexes of dirs that were listed and chdir'ed into
          log,         \* stdout/stderr events in emission order (plus suppressed names)
          exit,        \* process exit status, Running while it runs
          fatal,       \* why the process terminated early
          allocFailed, \* the allocation site that failed, "none" if none
          st_size,     \* fmt_size: the argument
          sizebuf,     \* fmt_size: the static result buffer
          names_in,    \* sort: the array handed to the sorter
          sorted1,     \* sort: the array after one sort
          sorted2      \* sort: the array after sorting the sorted array again

vars == <<argv, g_args, pc, files, dirs, i, j, cur, ctx, wd, cwd, entered, log,
          exit, fatal, allocFailed, st_size, sizebuf, names_in, sorted1, sorted2>>

runVars == <<argv, g_args, pc, files, dirs, i, j, cur, ctx, wd, cwd, entered, log,
             exit, fatal, allocFailed>>

(***************************************************************************)
(* Bounds of the model.                                                    *)
(***************************************************************************)
MaxTargets == 2      \* FILE operands on the command line
MaxSortLen == 3      \* length of the arrays handed to the sorter on its own

(***************************************************************************)
(* Program constants.                                                      *)
(***************************************************************************)
ONE_KB == 1024
ONE_MB == ONE_KB * ONE_KB
ONE_GB == ONE_MB * ONE_KB
InitCap == 32        \* listdir: int n = 32
LinkBuf == 4096      \* fmt_name: malloc(4096)
SizeWidth == 7       \* "%7ld"
HumanWidth == 6      \* "%6.1f"
Running == 0 - 1
EXIT_SUCCESS == 0
EXIT_FAILURE == 1
SIGSEGV_STATUS == 128 + 11

(***************************************************************************)
(* Bytes and strings.                                                      *)
(***************************************************************************)
SP == 32
DOT == 46
Arrow == <<32, 45, 62, 32>>          \* " -> "
SufK == 75
SufM == 77
SufG == 71

s_dot == <<46>>                      \* "."
s_dotdot == <<46, 46>>               \* ".."
s_f == <<102>>                       \* "f"
s_hid == <<46, 104>>                 \* ".h"
s_d == <<100>>                       \* "d"
s_ld == <<108, 100>>                 \* "ld"
s_e == <<101>>                       \* "e"
s_dn == <<100, 110>>                 \* "dn"
s_dx == <<100, 120>>                 \* "dx"
s_nx == <<110, 120>>                 \* "nx"
s_a == <<97>>                        \* "a"
s_A == <<65>>                        \* "A"
s_c == <<46, 99>>                    \* ".c"
s_lf == <<108, 102>>                 \* "lf"
s_l2 == <<108, 50>>                  \* "l2"
s_dl == <<100, 108>>                 \* "dl"
s_gone == <<103, 111, 110, 101>>     \* "gone"
s_B == <<66>>                        \* "B"
s_us == <<95>>                       \* "_"

Range(s) == {s[k] : k \in DOMAIN s}

Remove(s, k) == [m \in 1..(Len(s) - 1) |-> IF m < k THEN s[m] ELSE s[m + 1]]

\* the byte at 1-based position k of a NUL-terminated string
at(s, k) == IF k <= Len(s) THEN s[k] ELSE 0

tolower(c) == IF c \in 65..90 THEN c + 32 ELSE c

RECURSIVE strcasecmp_from(_, _, _)
strcasecmp_from(s1, s2, k) ==
    LET c1 == tolower(at(s1, k))
        c2 == tolower(at(s2, k))
    IN  IF c1 # c2 THEN c1 - c2
        ELSE IF c1 = 0 THEN 0
        ELSE strcasecmp_from(s1, s2, k + 1)

strcasecmp(s1, s2) == strcasecmp_from(s1, s2, 1)

RECURSIVE strcmp_from(_, _, _)
strcmp_from(s1, s2, k) ==
    LET c1 == at(s1, k)
        c2 == at(s2, k)
    IN  IF c1 # c2 THEN c1 - c2
        ELSE IF c1 = 0 THEN 0
        ELSE strcmp_from(s1, s2, k + 1)

strcmp(s1, s2) == strcmp_from(s1, s2, 1)

\* a comparator that forgets to fold case
cmp_cs(pa, pb) == strcmp(pa, pb)

cmp(pa, pb) == strcasecmp(pa, pb)

(***************************************************************************)
(* sort: qsort with cmp.  qsort leaves the relative order of elements that *)
(* compare equal unspecified, so the sorter's result is any arrangement of *)
(* the array that qsort may produce: the set of all of them.               *)
(***************************************************************************)
RECURSIVE qsort(_)
qsort(a) ==
    IF a = <<>> THEN {<<>>}
    ELSE LET least == {k \in DOMAIN a : \A m \in DOMAIN a : cmp(a[k], a[m]) <= 0}
         IN  UNION {{<<a[k]>> \o t : t \in qsort(Remove(a, k))} : k \in least}

sort(a) == qsort(a)

(***************************************************************************)
(* The file system the program runs against: a fixed tree with one node of *)
(* every kind the code distinguishes.  A directory's dents are its entries *)
(* in readdir order, each <<name, node>>; r is read permission (opendir),  *)
(* x is search permission (chdir).  Symbolic links hold the raw link       *)
(* string, which names a sibling of the link.                              *)
(***************************************************************************)
NoNode == "-"

Reg(sz) == [type |-> "reg", size |-> sz, target |-> <<>>, r |-> TRUE, x |-> FALSE, dents |-> <<>>]
Lnk(to) == [type |-> "lnk", size |-> Len(to), target |-> to, r |-> TRUE, x |-> TRUE, dents |-> <<>>]
Dir(r, x, own, up, more) ==
    [type |-> "dir", size |-> 4096, target |-> <<>>, r |-> r, x |-> x,
     dents |-> <<<<s_dot, own>>, <<s_dotdot, up>>>> \o more]

\* the entries of "dx": one more than listdir's initial capacity in total, with
\* names "b1", "b2", ... that are pairwise different ignoring case
BigFiles == [k \in 1..(InitCap - 1) |-> <<<<98, 48 + k>>, "bf">>]

FS ==
    [n \in {"P", "S", "f", "h", "d", "ld", "e", "dn", "dx", "bf",
            "a", "A", "c", "lf", "l2", "dl"} |->
       CASE n = "P"   -> Dir(TRUE, TRUE, "P", "P", <<<<<<115>>, "S">>>>)
         [] n = "S"   -> Dir(TRUE, TRUE, "S", "P",
                             <<<<s_ld, "ld">>, <<s_f, "f">>, <<s_hid, "h">>, <<s_d, "d">>,
                               <<s_e, "e">>, <<s_dn, "dn">>, <<s_dx, "dx">>>>)
         [] n = "f"   -> Reg(1023)
         [] n = "h"   -> Reg(0)
         [] n = "d"   -> Dir(TRUE, TRUE, "d", "S",
                             <<<<s_lf, "lf">>, <<s_A, "A">>, <<s_dl, "dl">>, <<s_a, "a">>,
                               <<s_c, "c">>, <<s_l2, "l2">>>>)
         [] n = "ld"  -> Lnk(s_e)
         [] n = "e"   -> Dir(TRUE, TRUE, "e", "S", <<>>)
         [] n = "dn"  -> Dir(FALSE, TRUE, "dn", "S", <<>>)
         [] n = "dx"  -> Dir(TRUE, FALSE, "dx", "S", BigFiles)
         [] n = "bf"  -> Reg(1)
         [] n = "a"   -> Reg(1536)
         [] n = "A"   -> Reg(ONE_GB)
         [] n = "c"   -> Reg(ONE_MB)
         [] n = "lf"  -> Lnk(s_a)
         [] n = "l2"  -> Lnk(s_lf)
         [] n = "dl"  -> Lnk(s_gone)]

StartDir == "S"

\* the names readdir returns for a directory, in readdir order
d_names(dir) == [k \in DOMAIN FS[dir].dents |-> FS[dir].dents[k][1]]

\* the node a name denotes in a directory, NoNode when there is no such entry
entry(dir, name) ==
    IF \E k \in DOMAIN FS[dir].dents : FS[dir].dents[k][1] = name
    THEN FS[dir].dents[(CHOOSE k \in DOMAIN FS[dir].dents : FS[dir].dents[k][1] = name)][2]
    ELSE NoNode

SYMLOOP_MAX == 8

\* lstat(2): the node itself.  stat(2): symbolic links are followed, hop by hop
RECURSIVE follow_from(_, _, _)
follow_from(dir, node, hops) ==
    IF node = NoNode THEN NoNode
    ELSE IF FS[node].type # "lnk" THEN node
    ELSE IF hops = 0 THEN NoNode
    ELSE follow_from(dir, entry(dir, FS[node].target), hops - 1)

lstat(dir, path) == entry(dir, path)

stat(dir, path) == follow_from(dir, entry(dir, path), SYMLOOP_MAX)

S_ISDIR(node) == FS[node].type = "dir"
S_ISLNK(node) == FS[node].type = "lnk"

\* isdir(path), called with the working directory at.  A query failure is "not a directory".
isdir(at_dir, path) ==
    LET buf == stat(at_dir, path)
    IN  buf # NoNode /\ S_ISDIR(buf)

\* get_stat with lstat and stat exchanged
get_stat_nofollow(at_dir, path) == lstat(at_dir, path)

\* get_stat(path, &buf): the node found, NoNode for a non-zero return
get_stat(at_dir, path) ==
    IF g_args.follow THEN stat(at_dir, path) ELSE lstat(at_dir, path)

\* opendir(dir): the directory node, NoNode for NULL
opendir(at_dir, path) ==
    LET n == stat(at_dir, path)
    IN  IF n # NoNode /\ S_ISDIR(n) /\ FS[n].r THEN n ELSE NoNode

\* chdir(dir): the new working directory, NoNode for a non-zero return
chdir(at_dir, path) ==
    LET n == stat(at_dir, path)
    IN  IF n # NoNode /\ S_ISDIR(n) /\ FS[n].x THEN n ELSE NoNode


(***************************************************************************)
(* The report line.                                                        *)
(***************************************************************************)
Min(a, b) == IF a <= b THEN a ELSE b

RECURSIVE dec(_)
\* the decimal digits of a natural number
dec(n) == IF n < 10 THEN <<48 + n>> ELSE dec(n \div 10) \o <<48 + (n % 10)>>

\* right-justify in a minimum field width; a longer text is printed whole
pad(w, text) == [k \in 1..(IF Len(text) >= w THEN 0 ELSE w - Len(text)) |-> SP] \o text

\* snprintf "%7ld"
fmt_ld(size) == pad(SizeWidth, dec(size))

\* snprintf "%6.1f" of size / (double)unit, unit a power of two >= ONE_KB.  The
\* quotient is exact in a double, and printf rounds it to one decimal, ties to
\* even.  10 * size is split at ONE_KB so that every intermediate fits the
\* model checker's integers.
fmt_f1(size, unit) ==
    LET hu    == unit \div ONE_KB
        whole == size \div unit
        rem   == size % unit
        a     == rem \div ONE_KB
        b     == rem % ONE_KB
        top   == 10 * a + ((10 * b) \div ONE_KB)
        d     == (10 * b) % ONE_KB
        q     == top \div hu
        R     == (top % hu) * ONE_KB + d
        half  == hu * (ONE_KB \div 2)
        t0    == 10 * whole + q
        T     == IF R > half \/ (R = half /\ t0 % 2 = 1) THEN t0 + 1 ELSE t0
    IN  pad(HumanWidth, dec(T \div 10) \o <<DOT>> \o <<48 + (T % 10)>>)

\* fmt_size whose thresholds are exclusive
fmt_size_gt(size) ==
    IF g_args.human = FALSE THEN fmt_ld(size)
    ELSE IF size > ONE_GB THEN fmt_f1(size, ONE_GB) \o <<SufG>>
    ELSE IF size > ONE_MB THEN fmt_f1(size, ONE_MB) \o <<SufM>>
    ELSE IF size > ONE_KB THEN fmt_f1(size, ONE_KB) \o <<SufK>>
    ELSE fmt_ld(size)

fmt_size(size) ==
    IF g_args.human = FALSE THEN fmt_ld(size)
    ELSE IF size >= ONE_GB THEN fmt_f1(size, ONE_GB) \o <<SufG>>
    ELSE IF size >= ONE_MB THEN fmt_f1(size, ONE_MB) \o <<SufM>>
    ELSE IF size >= ONE_KB THEN fmt_f1(size, ONE_KB) \o <<SufK>>
    ELSE fmt_ld(size)

\* fmt_mode: the type character ms[TYPE] (the permission characters are not modelled)
fmt_mode(st) ==
    IF S_ISDIR(st) THEN 100          \* 'd'
    ELSE IF S_ISLNK(st) THEN 108     \* 'l'
    ELSE 45                          \* '-'

\* fmt_name when both allocation and readlink succeed
fmt_name(st, name) ==
    IF S_ISLNK(st)
    THEN LET head   == SubSeq(name \o Arrow, 1, Min(Len(name) + Len(Arrow), LinkBuf - 1))
             offset == Len(name) + Len(Arrow)
             len    == Min(Len(FS[st].target), LinkBuf - offset)
         IN  head \o SubSeq(FS[st].target, 1, len)
    ELSE name

\* the line pr_line prints for a stat record and a name
pr_line(st, name) ==
    [kind |-> "line", ctx |-> ctx, at |-> wd, name |-> name, ino |-> st,
     type |-> fmt_mode(st), size |-> fmt_size(FS[st].size), disp |-> fmt_name(st, name),
     msg |-> ""]

\* what err_sys writes to standard error: the message and the name it is about
err_sys(k, what, name) ==
    [kind |-> "err", ctx |-> k, at |-> wd, name |-> name, ino |-> NoNode,
     type |-> 0, size |-> <<>>, disp |-> <<>>, msg |-> what]

\* the header "\n<dir>:\n"
header(k, dir) ==
    [kind |-> "hdr", ctx |-> k, at |-> wd, name |-> dir, ino |-> NoNode,
     type |-> 0, size |-> <<>>, disp |-> <<10>> \o dir \o <<58, 10>>, msg |-> ""]

\* a name do_files passed over (nothing is written)
skipped(name) ==
    [kind |-> "skip", ctx |-> ctx, at |-> wd, name |-> name, ino |-> NoNode,
     type |-> 0, size |-> <<>>, disp |-> <<>>, msg |-> ""]

\* the usage text on standard output
usage ==
    [kind |-> "usage", ctx |-> 0, at |-> wd, name |-> <<>>, ino |-> NoNode,
     type |-> 0, size |-> <<>>, disp |-> <<>>, msg |-> "Usage: ls -[aAhL] [FILE]..."]

(***************************************************************************)
(* The filter.                                                             *)
(***************************************************************************)
\* skip whose almost-all test joins the two comparisons with "or"
skip_or(file) ==
    IF g_args.all THEN FALSE
    ELSE IF g_args.almost /\ (strcmp(file, s_dot) # 0 \/ strcmp(file, s_dotdot) # 0) THEN FALSE
    ELSE IF at(file, 1) = DOT THEN TRUE
    ELSE FALSE

skip(file) ==
    IF g_args.all THEN FALSE
    ELSE IF g_args.almost /\ (strcmp(file, s_dot) # 0 /\ strcmp(file, s_dotdot) # 0) THEN FALSE
    ELSE IF at(file, 1) = DOT THEN TRUE
    ELSE FALSE

(***************************************************************************)
(* parse_args: g_args after a successful parse of the command line.        *)
(***************************************************************************)
DEFAULT_FILES == <<s_dot>>

parse_args(av) ==
    [all    |-> av.a,
     almost |-> IF av.A /\ av.a THEN FALSE ELSE av.A,
     human  |-> av.h,
     follow |-> av.L,
     files  |-> IF Len(av.files) = 0 THEN DEFAULT_FILES ELSE av.files,
     fc     |-> IF Len(av.files) = 0 THEN 1 ELSE Len(av.files)]

\* classify: the targets isdir accepts, and the others, each in command-line order
classify_dirs == SelectSeq(g_args.files, LAMBDA f : isdir(wd, f))
classify_files == SelectSeq(g_args.files, LAMBDA f : ~isdir(wd, f))


(***************************************************************************)
(* The run of the program.                                                 *)
(***************************************************************************)
TargetNames == {s_f, s_hid, s_d, s_ld, s_nx, s_dn, s_dx}

SeqsUpTo(S, n) == UNION {[1..m -> S] : m \in 0..n}

Argv == [a : BOOLEAN, A : BOOLEAN, h : BOOLEAN, L : BOOLEAN, bad : BOOLEAN,
         files : SeqsUpTo(TargetNames, MaxTargets)]

NoArgs == [all |-> FALSE, almost |-> FALSE, human |-> FALSE, follow |-> FALSE,
           files |-> <<>>, fc |-> 0]

\* the variables of the stand-alone checks of fmt_size and sort, unused in a run
IdleAux == st_size = 0 /\ sizebuf = <<>> /\ names_in = <<>> /\ sorted1 = <<>> /\ sorted2 = <<>>

auxVars == <<st_size, sizebuf, names_in, sorted1, sorted2>>

Init ==
    /\ argv \in Argv
    /\ g_args = NoArgs
    /\ pc = "parse_args"
    /\ files = <<>>
    /\ dirs = <<>>
    /\ i = 0
    /\ j = 0
    /\ cur = <<>>
    /\ ctx = 0
    /\ wd = StartDir
    /\ cwd = NoNode
    /\ entered = {}
    /\ log = <<>>
    /\ exit = Running
    /\ fatal = "none"
    /\ allocFailed = "none"
    /\ IdleAux

\* exit(status) / return status from main
Terminate(status, why) ==
    /\ pc' = "exited"
    /\ exit' = status
    /\ fatal' = why

\* the program has used a null pointer: the behaviour is undefined, and the
\* process ends with whatever status the build produces
Undefined(site) ==
    /\ pc' = "exited"
    /\ exit' \in {EXIT_SUCCESS, EXIT_FAILURE, SIGSEGV_STATUS}
    /\ fatal' = "alloc"
    /\ allocFailed' = site

\* main: parse_args fails on an unknown option or --help
main_usage ==
    /\ pc = "parse_args"
    /\ argv.bad
    /\ log' = Append(log, usage)
    /\ Terminate(EXIT_SUCCESS, "usage")
    /\ UNCHANGED <<argv, g_args, files, dirs, i, j, cur, ctx, wd, cwd, entered, allocFailed>>
    /\ UNCHANGED auxVars

main_parse ==
    /\ pc = "parse_args"
    /\ ~argv.bad
    /\ g_args' = parse_args(argv)
    /\ pc' = "main_alloc"
    /\ UNCHANGED <<argv, files, dirs, i, j, cur, ctx, wd, cwd, entered, log, exit, fatal,
                   allocFailed>>
    /\ UNCHANGED auxVars

\* main: the two classification arrays
main_alloc ==
    /\ pc = "main_alloc"
    /\ pc' = "classify"
    /\ UNCHANGED <<argv, g_args, files, dirs, i, j, cur, ctx, wd, cwd, entered, log, exit,
                   fatal, allocFailed>>
    /\ UNCHANGED auxVars

main_alloc_fail ==
    /\ pc = "main_alloc"
    /\ allocFailed' = "main"
    /\ Terminate(EXIT_FAILURE, "alloc")
    /\ UNCHANGED <<argv, g_args, files, dirs, i, j, cur, ctx, wd, cwd, entered, log>>
    /\ UNCHANGED auxVars

\* main: classify, the two sorts, and the call of do_files on the plain targets
main_classify ==
    /\ pc = "classify"
    /\ \E fs \in sort(classify_files), ds \in sort(classify_dirs) :
          /\ files' = fs
          /\ dirs' = ds
          /\ cur' = fs
    /\ j' = 1
    /\ ctx' = 0
    /\ pc' = "do_files"
    /\ UNCHANGED <<argv, g_args, i, wd, cwd, entered, log, exit, fatal, allocFailed>>
    /\ UNCHANGED auxVars


(***************************************************************************)
(* do_files: one action per way an iteration of its loop can go.           *)
(***************************************************************************)
InDoFiles == pc = "do_files" /\ j <= Len(cur)

doFilesFrame == <<argv, g_args, files, dirs, i, cur, ctx, wd, cwd, entered>>

\* if (skip(file)) continue;
do_files_skip ==
    /\ InDoFiles
    /\ skip(cur[j])
    /\ log' = Append(log, skipped(cur[j]))
    /\ j' = j + 1
    /\ UNCHANGED <<pc, exit, fatal, allocFailed>>
    /\ UNCHANGED doFilesFrame
    /\ UNCHANGED auxVars

\* a stat failure that ends the process
do_files_access_exit ==
    /\ InDoFiles
    /\ ~skip(cur[j])
    /\ get_stat(wd, cur[j]) = NoNode
    /\ log' = Append(log, err_sys(ctx, "can not access", cur[j]))
    /\ Terminate(EXIT_FAILURE, "none")
    /\ UNCHANGED <<j, allocFailed>>
    /\ UNCHANGED doFilesFrame
    /\ UNCHANGED auxVars

\* get_stat fails: err_sys, and on to the next name
do_files_access ==
    /\ InDoFiles
    /\ ~skip(cur[j])
    /\ get_stat(wd, cur[j]) = NoNode
    /\ log' = Append(log, err_sys(ctx, "can not access", cur[j]))
    /\ j' = j + 1
    /\ UNCHANGED <<pc, exit, fatal, allocFailed>>
    /\ UNCHANGED doFilesFrame
    /\ UNCHANGED auxVars

\* pr_line, fmt_name's allocation and readlink succeeding
do_files_line ==
    /\ InDoFiles
    /\ ~skip(cur[j])
    /\ get_stat(wd, cur[j]) # NoNode
    /\ log' = Append(log, pr_line(get_stat(wd, cur[j]), cur[j]))
    /\ j' = j + 1
    /\ UNCHANGED <<pc, exit, fatal, allocFailed>>
    /\ UNCHANGED doFilesFrame
    /\ UNCHANGED auxVars

\* fmt_name: malloc(4096) for a symbolic link returns NULL
do_files_nomem ==
    /\ InDoFiles
    /\ ~skip(cur[j])
    /\ get_stat(wd, cur[j]) # NoNode
    /\ S_ISLNK(get_stat(wd, cur[j]))
    /\ log' = Append(log, err_sys(ctx, "no memory", <<>>))
    /\ allocFailed' = "fmt_name"
    /\ Terminate(EXIT_FAILURE, "alloc")
    /\ UNCHANGED j
    /\ UNCHANGED doFilesFrame
    /\ UNCHANGED auxVars

\* fmt_name: readlink returns -1 (the link was removed or replaced after the lstat)
do_files_readlink ==
    /\ InDoFiles
    /\ ~skip(cur[j])
    /\ get_stat(wd, cur[j]) # NoNode
    /\ S_ISLNK(get_stat(wd, cur[j]))
    /\ log' = Append(log, err_sys(ctx, "can not read link", cur[j]))
    /\ Terminate(EXIT_FAILURE, "readlink")
    /\ UNCHANGED <<j, allocFailed>>
    /\ UNCHANGED doFilesFrame
    /\ UNCHANGED auxVars

\* fmt_name: strdup returns NULL, and pr_line hands the null pointer to fprintf "%-s"
do_files_strdup ==
    /\ InDoFiles
    /\ ~skip(cur[j])
    /\ get_stat(wd, cur[j]) # NoNode
    /\ ~S_ISLNK(get_stat(wd, cur[j]))
    /\ Undefined("fmt_name_strdup")
    /\ UNCHANGED <<j, log>>
    /\ UNCHANGED doFilesFrame
    /\ UNCHANGED auxVars

\* the loop ends: back in main (then do_dirs) or in do_dirs (then the restore)
do_files_return ==
    /\ pc = "do_files"
    /\ j > Len(cur)
    /\ pc' = IF ctx = 0 THEN "do_dirs" ELSE "restore"
    /\ UNCHANGED <<j, log, exit, fatal, allocFailed>>
    /\ UNCHANGED doFilesFrame
    /\ UNCHANGED auxVars

do_files ==
    \/ do_files_skip
    \/ do_files_access
    \/ do_files_line
    \/ do_files_nomem
    \/ do_files_readlink
    \/ do_files_strdup
    \/ do_files_return

(***************************************************************************)
(* do_dirs.                                                                *)
(***************************************************************************)
NullPtr == "NULL"

doDirsFrame == <<argv, g_args, files, dirs, j, cur, ctx, wd, entered>>

\* cwd = malloc(4096); getcwd(cwd, 4096) succeeds
do_dirs_getcwd ==
    /\ pc = "do_dirs"
    /\ cwd' = wd
    /\ i' = 1
    /\ pc' = "dirs_loop"
    /\ UNCHANGED <<log, exit, fatal, allocFailed>>
    /\ UNCHANGED doDirsFrame
    /\ UNCHANGED auxVars

\* getcwd returns NULL
do_dirs_getcwd_fail ==
    /\ pc = "do_dirs"
    /\ log' = Append(log, err_sys(0, "can not get current dir", <<>>))
    /\ Terminate(EXIT_FAILURE, "getcwd")
    /\ UNCHANGED <<i, cwd, allocFailed>>
    /\ UNCHANGED doDirsFrame
    /\ UNCHANGED auxVars

\* malloc returns NULL, which is not tested: getcwd(NULL, 4096) either fails, or
\* allocates a buffer of its own and returns it, and cwd stays NULL
do_dirs_getcwd_null ==
    /\ pc = "do_dirs"
    /\ allocFailed' = "cwd"
    /\ \/ /\ cwd' = NullPtr
          /\ i' = 1
          /\ pc' = "dirs_loop"
          /\ UNCHANGED <<log, exit, fatal>>
       \/ /\ log' = Append(log, err_sys(0, "can not get current dir", <<>>))
          /\ Terminate(EXIT_FAILURE, "getcwd")
          /\ UNCHANGED <<i, cwd>>
    /\ UNCHANGED doDirsFrame
    /\ UNCHANGED auxVars

InDirsLoop == pc = "dirs_loop" /\ i <= Len(dirs)

\* the capacity listdir ends with after reading count entries
RECURSIVE grown(_, _)
grown(n, count) == IF count <= n THEN n ELSE grown(2 * n, count)

\* listdir: files = malloc(...) returns NULL
listdir_nomem ==
    /\ InDirsLoop
    /\ log' = Append(log, err_sys(i, "no memory", <<>>))
    /\ allocFailed' = "listdir"
    /\ Terminate(EXIT_FAILURE, "alloc")
    /\ UNCHANGED <<i, cwd>>
    /\ UNCHANGED doDirsFrame
    /\ UNCHANGED auxVars

\* listdir: opendir fails; do_dirs continues with the next directory
listdir_access ==
    /\ InDirsLoop
    /\ opendir(wd, dirs[i]) = NoNode
    /\ log' = Append(log, err_sys(i, "can not access", dirs[i]))
    /\ i' = i + 1
    /\ UNCHANGED <<pc, cwd, exit, fatal, allocFailed>>
    /\ UNCHANGED doDirsFrame
    /\ UNCHANGED auxVars

\* listdir: the array is full and realloc returns NULL, which is stored and indexed
listdir_realloc ==
    /\ InDirsLoop
    /\ opendir(wd, dirs[i]) # NoNode
    /\ grown(InitCap, Len(d_names(opendir(wd, dirs[i])))) > InitCap
    /\ Undefined("realloc")
    /\ UNCHANGED <<i, cwd, log>>
    /\ UNCHANGED doDirsFrame
    /\ UNCHANGED auxVars

\* listdir: strdup returns NULL for some entry; the null pointer is stored in the
\* array and dereferenced by cmp (or, for an array of one, by skip or get_stat)
listdir_strdup ==
    /\ InDirsLoop
    /\ opendir(wd, dirs[i]) # NoNode
    /\ Len(d_names(opendir(wd, dirs[i]))) > 0
    /\ Undefined("strdup")
    /\ UNCHANGED <<i, cwd, log>>
    /\ UNCHANGED doDirsFrame
    /\ UNCHANGED auxVars

\* the listing succeeds, chdir(dir) fails: cleanup, and the next directory
do_dirs_chdir_fail ==
    /\ InDirsLoop
    /\ opendir(wd, dirs[i]) # NoNode
    /\ chdir(wd, dirs[i]) = NoNode
    /\ log' = Append(log, err_sys(i, "can not chdir", <<>>))
    /\ i' = i + 1
    /\ UNCHANGED <<pc, cwd, exit, fatal, allocFailed>>
    /\ UNCHANGED doDirsFrame
    /\ UNCHANGED auxVars

\* a header test that counts the directories instead of the targets
header_wanted_dc(dc) == dc > 1

\* if (dc > 0 && g_args.fc > 1)
header_wanted(dc) == dc > 0 /\ g_args.fc > 1

\* the listing succeeds and is sorted, chdir(dir) succeeds, the header is
\* printed if wanted, and do_files is called on the entries
do_dirs_enter ==
    /\ InDirsLoop
    /\ opendir(wd, dirs[i]) # NoNode
    /\ chdir(wd, dirs[i]) # NoNode
    /\ \E fs \in sort(d_names(opendir(wd, dirs[i]))) : cur' = fs
    /\ wd' = chdir(wd, dirs[i])
    /\ log' = IF header_wanted(Len(dirs)) THEN Append(log, header(i, dirs[i])) ELSE log
    /\ entered' = entered \cup {i}
    /\ ctx' = i
    /\ j' = 1
    /\ pc' = "do_files"
    /\ UNCHANGED <<argv, g_args, files, dirs, i, cwd, exit, fatal, allocFailed>>
    /\ UNCHANGED auxVars

\* the working directory after a successful chdir(cwd) that was left out
chdir_back_omitted(saved) == wd

\* the working directory after a successful chdir(cwd)
chdir_back(saved) == saved

\* chdir(cwd) succeeds; cleanup, and the next directory
do_dirs_restore ==
    /\ pc = "restore"
    /\ cwd # NullPtr
    /\ wd' = chdir_back(cwd)
    /\ i' = i + 1
    /\ pc' = "dirs_loop"
    /\ UNCHANGED <<argv, g_args, files, dirs, j, cur, ctx, cwd, entered, log, exit, fatal,
                   allocFailed>>
    /\ UNCHANGED auxVars

\* chdir(cwd) fails (always so for a null cwd): exit(1)
do_dirs_restore_fail ==
    /\ pc = "restore"
    /\ log' = Append(log, err_sys(i, "can not chdir", <<>>))
    /\ Terminate(EXIT_FAILURE, "restore")
    /\ UNCHANGED <<i, cwd, allocFailed>>
    /\ UNCHANGED doDirsFrame
    /\ UNCHANGED auxVars

\* do_dirs returns and main returns EXIT_SUCCESS
main_return ==
    /\ pc = "dirs_loop"
    /\ i > Len(dirs)
    /\ Terminate(EXIT_SUCCESS, fatal)
    /\ UNCHANGED <<i, cwd, log, allocFailed>>
    /\ UNCHANGED doDirsFrame
    /\ UNCHANGED auxVars

do_dirs ==
    \/ do_dirs_getcwd
    \/ do_dirs_getcwd_fail
    \/ do_dirs_getcwd_null
    \/ listdir_nomem
    \/ listdir_access
    \/ listdir_realloc
    \/ listdir_strdup
    \/ do_dirs_chdir_fail
    \/ do_dirs_enter
    \/ do_dirs_restore
    \/ do_dirs_restore_fail
    \/ main_return

Next ==
    \/ main_usage
    \/ main_parse
    \/ main_alloc
    \/ main_alloc_fail
    \/ main_classify
    \/ do_files
    \/ do_dirs

Spec == Init /\ [][Next]_vars


(***************************************************************************)
(* fmt_size on its own: one call on a size drawn from values on and around *)
(* the thresholds, the rounding ties and the field widths.                 *)
(***************************************************************************)
Sizes ==
    (0..2) \cup {9, 10, 99, 100, 999, 1000} \cup (1020..1030)
    \cup {1075, 1076, 1279, 1280, 1281, 1535, 1536, 10239, 10240, 102348}
    \cup {999999, 1000000, 9999999, 10000000, 123456789}
    \cup {1048524, 1048525, 1048575, 1048576, 1048577, 1101004, 1101005, 1572864}
    \cup {1073689396, 1073741823, 1073741824, 1073741825, 1127428915, 1127428916,
          1610612736, 2147483647}

InitSize ==
    /\ st_size \in Sizes
    /\ \E hm \in BOOLEAN : g_args = [NoArgs EXCEPT !.human = hm]
    /\ sizebuf = <<>>
    /\ pc = "fmt_size"
    /\ argv = [a |-> FALSE, A |-> FALSE, h |-> g_args.human, L |-> FALSE, bad |-> FALSE,
               files |-> <<>>]
    /\ files = <<>> /\ dirs = <<>> /\ i = 0 /\ j = 0 /\ cur = <<>> /\ ctx = 0
    /\ wd = StartDir /\ cwd = NoNode /\ entered = {} /\ log = <<>>
    /\ exit = Running /\ fatal = "none" /\ allocFailed = "none"
    /\ names_in = <<>> /\ sorted1 = <<>> /\ sorted2 = <<>>

fmt_size_call ==
    /\ pc = "fmt_size"
    /\ sizebuf' = fmt_size(st_size)
    /\ pc' = "formatted"
    /\ UNCHANGED <<argv, g_args, files, dirs, i, j, cur, ctx, wd, cwd, entered, log, exit,
                   fatal, allocFailed, st_size, names_in, sorted1, sorted2>>

NextSize == fmt_size_call

SpecSize == InitSize /\ [][NextSize]_vars

(***************************************************************************)
(* sort on its own: an array of names is sorted, and the result is sorted  *)
(* again.                                                                  *)
(***************************************************************************)
s_ab == <<97, 98>>                   \* "ab"
s_Ab == <<65, 98>>                   \* "Ab"

SortNames == {s_a, s_A, s_B, s_us, s_ab, s_Ab}

InitSort ==
    /\ names_in \in SeqsUpTo(SortNames, MaxSortLen)
    /\ sorted1 = <<>>
    /\ sorted2 = <<>>
    /\ pc = "sort"
    /\ argv = [a |-> FALSE, A |-> FALSE, h |-> FALSE, L |-> FALSE, bad |-> FALSE,
               files |-> <<>>]
    /\ g_args = NoArgs
    /\ files = <<>> /\ dirs = <<>> /\ i = 0 /\ j = 0 /\ cur = <<>> /\ ctx = 0
    /\ wd = StartDir /\ cwd = NoNode /\ entered = {} /\ log = <<>>
    /\ exit = Running /\ fatal = "none" /\ allocFailed = "none"
    /\ st_size = 0 /\ sizebuf = <<>>

sort_call ==
    /\ pc = "sort"
    /\ sorted1' \in sort(names_in)
    /\ pc' = "sort_again"
    /\ UNCHANGED <<argv, g_args, files, dirs, i, j, cur, ctx, wd, cwd, entered, log, exit,
                   fatal, allocFailed, st_size, sizebuf, names_in, sorted2>>

sort_again ==
    /\ pc = "sort_again"
    /\ sorted2' \in sort(sorted1)
    /\ pc' = "sorted"
    /\ UNCHANGED <<argv, g_args, files, dirs, i, j, cur, ctx, wd, cwd, entered, log, exit,
                   fatal, allocFailed, st_size, sizebuf, names_in, sorted1>>

NextSort == sort_call \/ sort_again

SpecSort == InitSort /\ [][NextSort]_vars


(***************************************************************************)
(* Reference definitions used by the properties (not by the model).        *)
(***************************************************************************)
IsDigit(c) == c \in 48..57

\* the text without its leading spaces
RECURSIVE Trim(_)
Trim(t) == IF t # <<>> /\ t[1] = SP THEN Trim(Tail(t)) ELSE t

\* the number a string of decimal digits denotes, -1 if it is not one
RECURSIVE DigitsValue(_, _)
DigitsValue(t, acc) ==
    IF t = <<>> THEN acc
    ELSE IF ~IsDigit(t[1]) THEN 0 - 1
    ELSE DigitsValue(Tail(t), 10 * acc + (t[1] - 48))

ParseDec(t) == IF Trim(t) = <<>> THEN 0 - 1 ELSE DigitsValue(Trim(t), 0)

Last(t) == t[Len(t)]

\* a scaled field "<digits>.<digit><suffix>": its value in tenths, -1 if malformed
ScaledTenths(t) ==
    LET body == Trim(t)
        n    == Len(body)
    IN  IF n >= 3 /\ body[n - 1] = DOT /\ IsDigit(body[n])
           /\ ParseDec(SubSeq(body, 1, n - 2)) >= 0
        THEN 10 * ParseDec(SubSeq(body, 1, n - 2)) + (body[n] - 48)
        ELSE 0 - 1

\* T tenths is s / unit rounded to one decimal: |T/10 - s/unit| <= 1/20, that is
\* (2T - 1) * unit <= 20 * s <= (2T + 1) * unit, compared without overflow
NearestTenth(T, s, unit) ==
    LET tp == T - 10 * (s \div unit)
        rm == s % unit
        hi == 20 * (rm \div ONE_KB) + ((20 * (rm % ONE_KB)) \div ONE_KB)
        lo == (20 * (rm % ONE_KB)) % ONE_KB
        hu == unit \div ONE_KB
    IN  /\ tp \in 0..10
        /\ (2 * tp - 1) * hu <= hi
        /\ hi < (2 * tp + 1) * hu \/ (hi = (2 * tp + 1) * hu /\ lo = 0)

Pow2(n) == 2 ^ n

\* the unit the claim assigns to a size, 0 for the plain byte count
RefUnit(s) ==
    IF s >= Pow2(30) THEN Pow2(30)
    ELSE IF s >= Pow2(20) THEN Pow2(20)
    ELSE IF s >= Pow2(10) THEN Pow2(10)
    ELSE 0

RefSuffix(s) ==
    IF s >= Pow2(30) THEN SufG
    ELSE IF s >= Pow2(20) THEN SufM
    ELSE SufK

\* C7: with human-readable sizes on, the size field has suffix G, M or K exactly in
\* the ranges [2^30, ..), [2^20, 2^30), [2^10, 2^20), carrying the size divided by
\* the unit to one decimal, and is the plain byte count below 1024 (1023 is "1023",
\* 1024 is "1.0K", 1073741824 is "1.0G"); with human-readable off the field is the
\* plain decimal byte count, whose digits parse back to the size.
C7_SizeField ==
    pc = "formatted" =>
        IF g_args.human
        THEN /\ IF RefUnit(st_size) = 0
                THEN ParseDec(sizebuf) = st_size
                ELSE /\ Last(sizebuf) = RefSuffix(st_size)
                     /\ ScaledTenths(SubSeq(sizebuf, 1, Len(sizebuf) - 1)) >= 0
                     /\ NearestTenth(ScaledTenths(SubSeq(sizebuf, 1, Len(sizebuf) - 1)),
                                     st_size, RefUnit(st_size))
             /\ st_size = 1023 => Trim(sizebuf) = <<49, 48, 50, 51>>
             /\ st_size = 1024 => Trim(sizebuf) = <<49, 46, 48, 75>>
             /\ st_size = 1073741824 => Trim(sizebuf) = <<49, 46, 48, 71>>
        ELSE /\ ParseDec(sizebuf) = st_size
             /\ Len(sizebuf) >= SizeWidth

\* 1024 bytes, human-readable on, formatted as "   1.0K"
C7_Witness ==
    /\ pc = "formatted"
    /\ g_args.human
    /\ st_size = 1024
    /\ sizebuf = <<32, 32, 32, 49, 46, 48, 75>>

(***************************************************************************)
(* The sorter.                                                             *)
(***************************************************************************)
Lower(t) == [k \in DOMAIN t |-> IF t[k] \in 65..90 THEN t[k] + 32 ELSE t[k]]

\* byte-wise lexicographic order
LexLeq(x, y) ==
    \/ Len(x) <= Len(y) /\ \A k \in 1..Len(x) : x[k] = y[k]
    \/ \E k \in 1..Min(Len(x), Len(y)) :
          /\ x[k] < y[k]
          /\ \A m \in 1..(k - 1) : x[m] = y[m]

CILeq(x, y) == LexLeq(Lower(x), Lower(y))

CISorted(a) == \A k \in 1..(Len(a) - 1) : CILeq(a[k], a[k + 1])

Count(a, v) == Cardinality({k \in DOMAIN a : a[k] = v})

IsPermutation(a, b) ==
    /\ Len(a) = Len(b)
    /\ \A v \in Range(a) \cup Range(b) : Count(a, v) = Count(b, v)

Folded(a) == [k \in DOMAIN a |-> Lower(a[k])]

\* no two different names of the array are equal ignoring case
NoCaseTwins(a) == \A k, m \in DOMAIN a : Lower(a[k]) = Lower(a[m]) => a[k] = a[m]

Parsed == pc # "parse_args" /\ ~argv.bad

Classified == Parsed /\ pc \notin {"main_alloc", "classify"} /\ allocFailed # "main"

\* the events of do_files for one array: lines, access errors and suppressed names
IsEntryEvent(e) ==
    \/ e.kind \in {"line", "skip"}
    \/ e.kind = "err" /\ e.msg = "can not access"

\* the entry events of do_files(files, fc) in main
TopEvents == SelectSeq(log, LAMBDA e : e.ctx = 0 /\ IsEntryEvent(e))

\* the events of directory k of dirs
DirEvents(k) == SelectSeq(log, LAMBDA e : e.ctx = k)

\* the entry events of directory k, which exist only once it has been entered
DirEntryEvents(k) ==
    SelectSeq(log, LAMBDA e : e.ctx = k /\ k \in entered /\ e.kind \in {"line", "skip", "err"}
                              /\ e.msg \in {"", "can not access"})

\* how many plain targets do_files(files, fc) has dealt with
TopDone == IF pc = "do_files" /\ ctx = 0 THEN j - 1 ELSE Len(files)

\* C1 as stated: every plain command-line target is stat'ed and yields exactly one
\* report line or exactly one access error; none is suppressed by the dotfile filter.
C1_TargetsNeverFiltered ==
    Classified /\ pc # "exited" =>
        /\ Len(TopEvents) = TopDone
        /\ \A k \in 1..TopDone :
              /\ TopEvents[k].name = files[k]
              /\ TopEvents[k].kind \in {"line", "err"}

\* the suppress decision the specification of the filter prescribes, from the
\* flags as requested on the command line
RefSuppress(av, name) ==
    IF av.a THEN FALSE
    ELSE IF av.A THEN name \in {s_dot, s_dotdot}
    ELSE name # <<>> /\ name[1] = DOT

\* every name of the file system, and some that are nowhere
AllNames ==
    UNION {Range(d_names(n)) : n \in {m \in DOMAIN FS : FS[m].type = "dir"}}
    \cup {s_nx, s_gone, <<>>, <<46, 46, 46>>, <<46, 46, 97>>, <<97, 46>>}

\* C2: for every entry name found by listing a directory and every combination of
\* requested flags, the filter suppresses the name exactly when the reference does:
\* nothing with -a (with or without -A), else "." and ".." alone with -A, else every
\* name that begins with "."; every listed entry is suppressed or reported accordingly.
C2_FilterReference ==
    Parsed =>
        /\ \A name \in AllNames : skip(name) = RefSuppress(argv, name)
        /\ \A k \in entered :
              LET ev == DirEntryEvents(k)
              IN  \A m \in DOMAIN ev :
                     (ev[m].kind = "skip") = RefSuppress(argv, ev[m].name)
        /\ pc = "do_files" /\ ctx > 0 =>
              /\ Len(DirEntryEvents(ctx)) = j - 1
              /\ \A m \in 1..(j - 1) : DirEntryEvents(ctx)[m].name = cur[m]

\* with -A alone, a directory's "." was suppressed and its ".c" reported
C2_Witness ==
    /\ argv.A /\ ~argv.a
    /\ \E k \in DOMAIN log : log[k].ctx > 0 /\ log[k].kind = "skip" /\ log[k].name = s_dot
    /\ \E k \in DOMAIN log : log[k].ctx > 0 /\ log[k].kind = "line" /\ log[k].name = s_c

\* C3 as stated: the classification of a command-line target follows symbolic links
\* if and only if -L is set, as every other metadata lookup does: a target is among
\* the directories exactly when the lookup get_stat makes of it reports a directory.
C3_UniformLookup ==
    Classified =>
        \A k \in DOMAIN g_args.files :
            LET t == g_args.files[k]
            IN  (t \in Range(dirs)) <=>
                    (get_stat(StartDir, t) # NoNode /\ S_ISDIR(get_stat(StartDir, t)))

\* C4: all output for plain targets, in case-insensitive sorted order, comes before
\* any output for directory targets; directories are processed in sorted order; a
\* directory that was listed and entered has its header exactly once, before its
\* entries, if and only if more than one target was given, and no other has one.
C4_OutputOrder ==
    Classified =>
        /\ \A k \in 1..(Len(log) - 1) : log[k].ctx <= log[k + 1].ctx
        /\ CISorted(files)
        /\ CISorted(dirs)
        /\ IsPermutation(files \o dirs, g_args.files)
        /\ \A k \in DOMAIN TopEvents : TopEvents[k].name = files[k]
        /\ \A k \in DOMAIN dirs :
              LET ev   == DirEvents(k)
                  hdrs == {m \in DOMAIN ev : ev[m].kind = "hdr"}
              IN  IF k \in entered /\ Len(argv.files) > 1
                  THEN /\ hdrs = {1}
                       /\ ev[1].name = dirs[k]
                       /\ ev[1].disp = <<10>> \o dirs[k] \o <<58, 10>>
                  ELSE hdrs = {}

\* "ls ld f": the line of f, then the header of ld, whose two entries are suppressed
C4_Witness ==
    /\ pc = "exited"
    /\ exit = EXIT_SUCCESS
    /\ argv.files = <<s_ld, s_f>>
    /\ Len(log) = 4
    /\ log[1].kind = "line" /\ log[1].name = s_f
    /\ log[2].kind = "hdr" /\ log[2].name = s_ld
    /\ log[3].kind = "skip" /\ log[4].kind = "skip"

\* the reasons for which the process may exit with status 1
FatalCauses == {"alloc", "getcwd", "restore", "readlink"}

\* C5: an access error (a failed stat, opendir or chdir into a directory) is
\* reported once and does not end the run: every remaining entry and target is
\* still processed, and the process exits with status 0; status 1 occurs only for
\* an allocation failure, a failed getcwd, a failed restore or a failed readlink.
C5_NonFatalErrors ==
    /\ exit = EXIT_FAILURE => fatal \in FatalCauses
    /\ fatal \in FatalCauses => pc = "exited"
    /\ pc = "exited" /\ fatal = "none" =>
          /\ exit = EXIT_SUCCESS
          /\ Len(TopEvents) = Len(files)
          /\ \A k \in DOMAIN dirs :
                IF k \in entered
                THEN Len(DirEntryEvents(k)) = Len(d_names(stat(StartDir, dirs[k])))
                ELSE /\ Len(DirEvents(k)) = 1
                     /\ DirEvents(k)[1].kind = "err"
                     /\ DirEvents(k)[1].msg \in {"can not access", "can not chdir"}

\* "ls -L d dx" ran to the end with status 0: the stat of d's dangling link failed,
\* d's later entries were still reported, and the chdir into dx failed
C5_Witness ==
    /\ pc = "exited"
    /\ exit = EXIT_SUCCESS
    /\ fatal = "none"
    /\ argv.files = <<s_d, s_dx>>
    /\ \E k, m \in DOMAIN log :
          /\ k < m
          /\ log[k].kind = "err" /\ log[k].name = s_dl /\ log[k].ctx = 1
          /\ log[m].kind = "line" /\ log[m].ctx = 1
    /\ \E k \in DOMAIN log : log[k].kind = "err" /\ log[k].msg = "can not chdir" /\ log[k].ctx = 2

\* the node at the end of a chain of at most two links starting at link n of dir
RefLinkEnd(dir, n) ==
    LET h1 == entry(dir, FS[n].target)
    IN  IF h1 = NoNode THEN NoNode
        ELSE IF FS[h1].type # "lnk" THEN h1
        ELSE entry(dir, FS[h1].target)

RefTypeChar(n) == IF FS[n].type = "dir" THEN 100 ELSE IF FS[n].type = "lnk" THEN 108 ELSE 45

C8_WorkingDirectory ==
    /\ pc = "dirs_loop" => wd = StartDir
    /\ wd # StartDir => \/ pc = "do_files" /\ ctx > 0
                        \/ pc = "restore"
                        \/ pc = "exited" /\ fatal \in FatalCauses
    /\ fatal = "restore" => pc = "exited" /\ exit = EXIT_FAILURE

\* "ls -L d ..." is about to process its second directory after the first was
\* entered, had an entry whose stat failed, and was left again
C8_Witness ==
    /\ pc = "dirs_loop"
    /\ i = 2
    /\ Len(dirs) = 2
    /\ 1 \in entered
    /\ wd = StartDir
    /\ \E k \in DOMAIN log : log[k].kind = "err" /\ log[k].ctx = 1 /\ log[k].name = s_dl

\* C9 as stated: every allocation failure is reported on standard error and ends
\* the process at once with status 1.
C9_AllocationFailures ==
    allocFailed # "none" =>
        /\ pc = "exited"
        /\ exit = EXIT_FAILURE
        /\ log # <<>>
        /\ Last(log).kind = "err"
        /\ Last(log).msg = "no memory"


====
